---------------------------- MODULE Spec2Model ----------------------------
(***************************************************************************)
(* Model of src/plugins/plugins.c of Profanity: the plugin registry        *)
(* (static GSList *plugins), the loader and lifecycle functions            *)
(* plugins_init / plugins_shutdown, and the hook dispatchers (plugins_on_  *)
(* start, ..., plugins_before_message_displayed).                          *)
(*                                                                         *)
(* The engine adapters (Python, Ruby, Lua and C) and the hook              *)
(* functions of the plugins are called by plugins.c but live in other      *)
(* files: their calls are recorded as events, and their outcomes (create   *)
(* succeeds or returns NULL; a hook returns NULL, returns a newly          *)
(* allocated string, or never returns) are inputs chosen with \E.          *)
(*                                                                         *)
(* Spec is the program in surroundings that keep to the conventions of     *)
(* the interface.  SpecAlias, SpecEngineFail and SpecLate are the same     *)
(* program with, in turn, hooks that may return the message they were      *)
(* handed, engines whose init fails, and a host that goes on calling       *)
(* after plugins_shutdown.                                                 *)
(***************************************************************************)
EXTENDS Integers, Sequences, FiniteSets, TLC

(***************************************************************************)
(* Bounds of the model.                                                    *)
(***************************************************************************)
MaxFiles == 2

MaxTeardowns == 2

(***************************************************************************)
(* Languages (ProfPlugin.lang) and the order in which plugins.c names      *)
(* them in every #ifdef ladder.                                            *)
(***************************************************************************)
EngineOrder == <<"LANG_PYTHON", "LANG_RUBY", "LANG_LUA", "LANG_C">>

Langs == {EngineOrder[k] : k \in 1..Len(EngineOrder)}

\* The suffix each #ifdef block of plugins_init tests, as a character sequence.
Suffix(l) ==
    CASE l = "LANG_PYTHON" -> <<".", "p", "y">>
      [] l = "LANG_RUBY"   -> <<".", "r", "b">>
      [] l = "LANG_LUA"    -> <<".", "l", "u", "a">>
      [] l = "LANG_C"      -> <<".", "s", "o">>

\* glib's g_str_has_suffix: str ends with suffix (FALSE when str is shorter).
g_str_has_suffix(str, suffix) ==
    /\ Len(str) >= Len(suffix)
    /\ SubSeq(str, Len(str) - Len(suffix) + 1, Len(str)) = suffix

\* Filenames the preferences may list, as character sequences.
FileNames ==
    { <<"a", ".", "p", "y">>,
      <<"b", ".", "r", "b">>,
      <<"c", ".", "l", "u", "a">>,
      <<"d", ".", "s", "o">>,
      <<"e", ".", "x", "y", "z">>,
      <<"p", "y">> }

\* prefs_get_plugins() returns NULL or a NULL-terminated string vector: the
\* pointer is the record [null, strv], strv being the strings it points to.
NullStrv == [null |-> TRUE, strv |-> <<>>]

Strv(v) == [null |-> FALSE, strv |-> v]

RECURSIVE SeqsUpTo(_, _)
SeqsUpTo(S, n) ==
    IF n = 0 THEN {<<>>}
    ELSE LET shorter == SeqsUpTo(S, n - 1)
         IN  shorter \cup {Append(s, x) : s \in {t \in shorter : Len(t) = n - 1}, x \in S}

PluginsLoadValues == {NullStrv} \cup {Strv(v) : v \in SeqsUpTo(FileNames, MaxFiles)}

g_strv_length(v) == Len(v.strv)

(***************************************************************************)
(* State.                                                                  *)
(*   have          the PROF_HAVE_* macros of the build                     *)
(*   plugins_load  what prefs_get_plugins() returns                        *)
(*   plugins       the registry, static GSList *plugins                    *)
(*   pc            where the host is in its use of the module: "uninit"    *)
(*                 before plugins_init, "running" between calls,           *)
(*                 "returned" when a dispatcher has just returned,         *)
(*                 "terminated" after plugins_shutdown, "crashed" when a   *)
(*                 hook call did not return                                *)
(*   log           the calls plugins_init and plugins_shutdown have made   *)
(*                 into the adapters, the logger and the init hooks        *)
(*   last          the most recent hook dispatch: the hook, the caller's   *)
(*                 message, the hook calls made, the message buffers and   *)
(*                 the pointer returned                                    *)
(*   teardowns     the number of plugins_shutdown calls made               *)
(*   env           what the code around plugins.c does in this run:        *)
(*                 failing, the engines whose init fails; alias, whether   *)
(*                 a hook may return the very pointer it was given; late,  *)
(*                 whether the host goes on calling after teardown         *)
(***************************************************************************)
VARIABLES have, plugins_load, plugins, pc, log, last, teardowns, env

vars == <<have, plugins_load, plugins, pc, log, last, teardowns, env>>

\* The surroundings that keep to the conventions of the interface: engines
\* come up, a hook returns NULL or a string of its own, the host makes no
\* call after plugins_shutdown.
Conforming == [failing |-> {}, alias |-> FALSE, late |-> FALSE]

\* One recorded call: op names the callee, lang the adapter, idx the index of
\* the filename in plugins_load (0 when the call is not about a file), ok
\* whether the call returned a plugin (create) or returned at all (hooks).
Event(op, lang, idx, ok) == [op |-> op, lang |-> lang, idx |-> idx, ok |-> ok]

\* A ProfPlugin as the adapter's create returns it: the file it was made from
\* and the language tag of the adapter that made it.
ProfPlugin(idx, lang) == [idx |-> idx, name |-> plugins_load.strv[idx], lang |-> lang]

\* The list with data put first, as g_slist_prepend would.
g_slist_prepend(list, data) == <<data>> \o list

g_slist_append(list, data) == Append(list, data)

g_slist_next(list) == Tail(list)

(***************************************************************************)
(* Message buffers.  A char * is an address: 0 is the null pointer, p > 0  *)
(* is the p-th buffer allocated during the dispatch.  A buffer holds its   *)
(* text and whether it has been freed.  Buffer 1 is the caller's message.  *)
(***************************************************************************)
NullPtr == 0

Buffer(text) == [val |-> text, live |-> TRUE]

\* malloc of a buffer holding text: the heap with the buffer, and its address.
Alloc(heap, text) == [heap |-> Append(heap, Buffer(text)), ptr |-> Len(heap) + 1]

\* strdup(p): a new buffer with the text of p.
strdup(heap, p) == Alloc(heap, heap[p].val)

\* free(p).
free(heap, p) == [heap EXCEPT ![p].live = FALSE]

\* The messages a caller passes and the texts a hook may return.
Messages == {"m", "n"}

Replies == {"A", "B"}

\* What a hook call does: it returns no message, returns a newly allocated
\* message, or never returns to the dispatcher.
HookOutcomes == {"NULL", "FATAL"} \cup Replies

\* A hook may also return the pointer it was given.
AliasOutcomes == {"SAME"}

\* What the build makes of strdup and free applied to a released buffer:
\* the old bytes are still read and the second free goes unnoticed; other
\* bytes are read; the allocator hands the released block out again for the
\* copy, which the free that follows releases; or the allocator detects the
\* second free and ends the process.
DanglingOutcomes == {"intact", "garbage", "reused", "abort"}

\* The text read from a released buffer whose bytes were overwritten.
Garbage == "?"

\* The arguments a caller passes to each transform function: the fixed
\* arguments before the message, then the message text.  Two calls of each
\* function are drawn, differing in every argument.
TransformArgs(hook) ==
    CASE hook = "before_message_displayed" ->
             {<<<<>>, "m">>, <<<<>>, "n">>}
      [] hook \in {"on_message_received", "on_message_send"} ->
             {<<<<"j1">>, "m">>, <<<<"j2">>, "n">>}
      [] hook \in {"on_private_message_received", "on_room_message_received",
                   "on_private_message_send"} ->
             {<<<<"r1", "k1">>, "m">>, <<<<"r2", "k2">>, "n">>}
      [] hook = "on_room_message_send" ->
             {<<<<"r1">>, "m">>, <<<<"r2">>, "n">>}

Contexts(hook) == {args[1] : args \in TransformArgs(hook)}

\* list is the GSList * that plugins_get_list returned; ctx and text the
\* fixed arguments and the message text the caller of a transform passed;
\* faults the uses of released buffers.
NoDispatch ==
    [hook |-> "none", message |-> NullPtr, calls |-> <<>>, heap |-> <<>>,
     result |-> NullPtr, status |-> "none", list |-> <<>>, ctx |-> <<>>,
     text |-> "", faults |-> <<>>]

InitIn(envs) ==
    /\ have \in SUBSET Langs
    /\ plugins_load \in PluginsLoadValues
    /\ plugins = <<>>
    /\ pc = "uninit"
    /\ log = <<>>
    /\ last = NoDispatch
    /\ teardowns = 0
    /\ env \in {e \in envs : e.failing \subseteq have}

Init == InitIn({Conforming})

(***************************************************************************)
(* plugins_init, lines 57-134.                                             *)
(***************************************************************************)

\* The engines initialised only when there is a list of plugins to load.
RECURSIVE EnvInit_only_with_list(_, _)
EnvInit_only_with_list(lg, k) ==
    IF k > Len(EngineOrder) \/ plugins_load.null THEN lg
    ELSE EnvInit_only_with_list(IF EngineOrder[k] \in have
                                THEN Append(lg, Event("env_init", EngineOrder[k], 0, TRUE))
                                ELSE lg,
                                k + 1)

\* Lines 62-73: the *_env_init() call of every compiled-in engine.
RECURSIVE EnvInit(_, _)
EnvInit(lg, k) ==
    IF k > Len(EngineOrder) THEN lg
    ELSE EnvInit(IF EngineOrder[k] \in have
                 THEN Append(lg, Event("env_init", EngineOrder[k], 0,
                                       EngineOrder[k] \notin env.failing))
                 ELSE lg,
                 k + 1)

\* The block without its #ifdef: the suffix test alone decides.
LoadBlock_ignores_build(st, i, l, created) ==
    IF g_str_has_suffix(plugins_load.strv[i], Suffix(l))
    THEN IF created
         THEN [plugins |-> g_slist_append(st.plugins, ProfPlugin(i, l)),
               log     |-> Append(st.log, Event("create", l, i, TRUE)),
               loaded  |-> TRUE]
         ELSE [st EXCEPT !.log = Append(@, Event("create", l, i, FALSE))]
    ELSE st

\* The block refusing a file whose name is already in the registry.
LoadBlock_skips_duplicates(st, i, l, created) ==
    IF l \in have /\ g_str_has_suffix(plugins_load.strv[i], Suffix(l))
    THEN IF created
         THEN LET listed == \E k \in 1..Len(st.plugins) :
                               st.plugins[k].name = plugins_load.strv[i]
              IN  [plugins |-> IF listed THEN st.plugins
                               ELSE g_slist_append(st.plugins, ProfPlugin(i, l)),
                   log     |-> Append(st.log, Event("create", l, i, TRUE)),
                   loaded  |-> ~listed]
         ELSE [st EXCEPT !.log = Append(@, Event("create", l, i, FALSE))]
    ELSE st

\* One #ifdef block of the loop body (lines 83-91, 92-100, 101-109, 110-118)
\* for language l and file i; st is [plugins, log, loaded]; created tells
\* whether the adapter's create returns a plugin for this file.
LoadBlock(st, i, l, created) ==
    IF l \in have /\ g_str_has_suffix(plugins_load.strv[i], Suffix(l))
    THEN IF created
         THEN [plugins |-> g_slist_append(st.plugins, ProfPlugin(i, l)),
               log     |-> Append(st.log, Event("create", l, i, TRUE)),
               loaded  |-> TRUE]
         ELSE [st EXCEPT !.log = Append(@, Event("create", l, i, FALSE))]
    ELSE st

RECURSIVE LoadBlocks(_, _, _, _)
LoadBlocks(st, i, k, created) ==
    IF k > Len(EngineOrder) THEN st
    ELSE LoadBlocks(LoadBlock(st, i, EngineOrder[k], created), i, k + 1, created)

\* The iteration with the init hook of the new plugin called at once.
LoadFile_inits_at_once(st, i, created) ==
    LET after == LoadBlocks([st EXCEPT !.loaded = FALSE], i, 1, created)
    IN  IF after.loaded = TRUE
        THEN [after EXCEPT !.log =
                 Append(Append(@, Event("log_info", "none", i, TRUE)),
                        Event("init_hook", after.plugins[Len(after.plugins)].lang, i, TRUE))]
        ELSE after

\* The iteration with log_info called whether or not a plugin was loaded.
LoadFile_logs_every_file(st, i, created) ==
    LET after == LoadBlocks([st EXCEPT !.loaded = FALSE], i, 1, created)
    IN  [after EXCEPT !.log = Append(@, Event("log_info", "none", i, TRUE))]

\* Lines 81-121: one iteration of the load loop, with the log_info of line 120.
LoadFile(st, i, created) ==
    LET after == LoadBlocks([st EXCEPT !.loaded = FALSE], i, 1, created)
    IN  IF after.loaded = TRUE
        THEN [after EXCEPT !.log = Append(@, Event("log_info", "none", i, TRUE))]
        ELSE after

\* The loop left at the first file that was not loaded.
RECURSIVE LoadLoop_stops_at_failure(_, _, _)
LoadLoop_stops_at_failure(st, i, created) ==
    IF i > g_strv_length(plugins_load) THEN st
    ELSE LET after == LoadFile(st, i, created[i])
         IN  IF after.loaded = TRUE
             THEN LoadLoop_stops_at_failure(after, i + 1, created)
             ELSE after

\* Lines 79-122: for (i = 0; i < g_strv_length(plugins_load); i++).
RECURSIVE LoadLoop(_, _, _)
LoadLoop(st, i, created) ==
    IF i > g_strv_length(plugins_load) THEN st
    ELSE LoadLoop(LoadFile(st, i, created[i]), i + 1, created)

\* Lines 124-130: the init hook of every plugin of the registry; the hook of
\* the plugin at position failAt (0: none) never returns.
RECURSIVE InitWalk(_, _, _, _)
InitWalk(reg, lg, k, failAt) ==
    IF k > Len(reg) THEN lg
    ELSE LET called == Append(lg, Event("init_hook", reg[k].lang, reg[k].idx, k # failAt))
         IN  IF k = failAt THEN called
             ELSE InitWalk(reg, called, k + 1, failAt)

\* The host calls plugins_init once, at start-up, before any other function
\* of the file; the dispatchers and plugins_shutdown are called after it.
plugins_init ==
    /\ pc = "uninit"
    /\ LET lg0 == EnvInit(<<>>, 1)
       IN  IF plugins_load.null = FALSE
           THEN \E created \in [1..g_strv_length(plugins_load) -> BOOLEAN] :
                  LET st == LoadLoop([plugins |-> <<>>, log |-> lg0, loaded |-> FALSE],
                                     1, created)
                  IN  \E failAt \in 0..Len(st.plugins) :
                        /\ plugins' = st.plugins
                        /\ log' = InitWalk(st.plugins, st.log, 1, failAt)
                        /\ pc' = IF failAt = 0 THEN "running" ELSE "crashed"
           ELSE /\ plugins' = <<>>
                /\ log' = lg0
                /\ pc' = "running"
    /\ UNCHANGED <<have, plugins_load, last, teardowns, env>>

\* No function of plugins.c checks that plugins_init has run or that
\* plugins_shutdown has not: the host calls a dispatcher between the two,
\* and a host that goes on after teardown calls it then as well.
HostMayCall == pc = "running" \/ (env.late /\ pc = "terminated")

ReturnedTo == IF pc = "running" THEN "returned" ELSE "returned_late"

(***************************************************************************)
(* plugins_get_list, lines 136-140: return plugins.                        *)
(***************************************************************************)
plugins_get_list ==
    /\ HostMayCall
    /\ last' = [NoDispatch EXCEPT !.hook = "get_list", !.list = plugins,
                                  !.status = "listed"]
    /\ pc' = ReturnedTo
    /\ UNCHANGED <<have, plugins_load, plugins, log, teardowns, env>>

(***************************************************************************)
(* Notification hooks: plugins_on_start, plugins_on_connect,               *)
(* plugins_on_disconnect (lines 166-197), plugins_on_shutdown (349-358).   *)
(***************************************************************************)

\* The walk taken from the tail of the list to its head.
RECURSIVE NotifyWalk_backwards(_, _, _)
NotifyWalk_backwards(curr, calls, outs) ==
    IF curr = <<>> THEN calls
    ELSE LET plugin == curr[Len(curr)]
             called == Append(calls, [plugin |-> plugin, arg |-> NullPtr,
                                      val |-> "none", out |-> Head(outs)])
         IN  IF Head(outs) = "FATAL" THEN called
             ELSE NotifyWalk_backwards(SubSeq(curr, 1, Len(curr) - 1), called, Tail(outs))

\* while (curr != NULL) { plugin->hook(plugin, ...); curr = g_slist_next(curr); }
\* outs gives the outcome of each hook call in turn.
RECURSIVE NotifyWalk(_, _, _)
NotifyWalk(curr, calls, outs) ==
    IF curr = <<>> THEN calls
    ELSE LET plugin == Head(curr)
             called == Append(calls, [plugin |-> plugin, arg |-> NullPtr,
                                      val |-> "none", out |-> Head(outs)])
         IN  IF Head(outs) = "FATAL" THEN called
             ELSE NotifyWalk(g_slist_next(curr), called, Tail(outs))

Returned(calls) == \A k \in 1..Len(calls) : calls[k].out # "FATAL"

Notify(hook) ==
    /\ HostMayCall
    /\ \E outs \in [1..Len(plugins) -> {"NULL", "FATAL"}] :
         LET calls == NotifyWalk(plugins, <<>>, outs)
         IN  /\ last' = [hook |-> hook, message |-> NullPtr, calls |-> calls,
                         heap |-> <<>>, result |-> NullPtr,
                         status |-> IF Returned(calls) THEN "done" ELSE "crashed",
                         list |-> <<>>, ctx |-> <<>>, text |-> "",
                         faults |-> <<>>]
             /\ pc' = IF Returned(calls) THEN ReturnedTo ELSE "crashed"
    /\ UNCHANGED <<have, plugins_load, plugins, log, teardowns, env>>

plugins_on_start == Notify("on_start")

plugins_on_connect == Notify("on_connect")

plugins_on_disconnect == Notify("on_disconnect")

plugins_on_shutdown == Notify("on_shutdown")

(***************************************************************************)
(* Message-transform hooks, lines 199-347: seven functions with one body.  *)
(***************************************************************************)

\* new_message = plugin->hook(plugin, ..., curr_message): the pointer the call
\* returns for outcome out, and the heap with the buffer the hook allocated.
HookCall(heap, arg, out) ==
    IF out = "NULL" THEN [heap |-> heap, ptr |-> NullPtr]
    ELSE IF out = "SAME" THEN [heap |-> heap, ptr |-> arg]
    ELSE Alloc(heap, out)

\* A use of a released buffer.
Fault(op, p) == [op |-> op, ptr |-> p]

\* strdup(new_message); free(new_message) with new_message released by the
\* free(curr_message) before them: how resolves what the two calls do.
DanglingStep(w, freed, new_message, how) ==
    LET faulty == [w EXCEPT !.heap = freed,
                            !.faults = @ \o <<Fault("read", new_message),
                                              Fault("free", new_message)>>]
    IN  CASE how = "abort"   -> [faulty EXCEPT !.aborted = TRUE]
          [] how = "intact"  -> LET dup == strdup(freed, new_message)
                                IN  [faulty EXCEPT !.heap = dup.heap,
                                                   !.curr_message = dup.ptr]
          [] how = "garbage" -> LET dup == Alloc(freed, Garbage)
                                IN  [faulty EXCEPT !.heap = dup.heap,
                                                   !.curr_message = dup.ptr]
          [] how = "reused"  -> [faulty EXCEPT !.heap[new_message].val = Garbage,
                                               !.curr_message = new_message]

\* The step without the assignment to curr_message: the replacement is freed
\* and the current message kept.
TransformStep_drops_replacement(w, new_message) ==
    IF new_message # NullPtr
    THEN [w EXCEPT !.heap = free(@, new_message)]
    ELSE w

\* if (new_message != NULL) { free(curr_message);
\*     curr_message = strdup(new_message); free(new_message); }
\* w is the locals of the dispatcher, [heap, curr_message, calls, ctx], with
\* faults, aborted and dangling (how each call's step resolves when it uses
\* a released buffer).
TransformStep(w, new_message) ==
    IF new_message # NullPtr
    THEN LET freed == free(w.heap, w.curr_message)
         IN  IF freed[new_message].live
             THEN LET dup == strdup(freed, new_message)
                  IN  [w EXCEPT !.heap = free(dup.heap, new_message),
                                !.curr_message = dup.ptr]
             ELSE DanglingStep(w, freed, new_message, w.dangling[Len(w.calls)])
    ELSE w

\* The hook is handed the fixed arguments and curr_message; a hook handed a
\* released buffer reads it.
RECURSIVE TransformWalk(_, _, _)
TransformWalk(curr, w, outs) ==
    IF curr = <<>> \/ w.aborted THEN w
    ELSE LET plugin == Head(curr)
             called == [w EXCEPT !.calls =
                           Append(@, [plugin |-> plugin, ctx |-> w.ctx,
                                      arg |-> w.curr_message,
                                      val |-> w.heap[w.curr_message].val,
                                      out |-> Head(outs)]),
                                 !.faults =
                                     IF w.heap[w.curr_message].live THEN @
                                     ELSE Append(@, Fault("read", w.curr_message))]
         IN  IF Head(outs) = "FATAL" THEN called
             ELSE LET ret == HookCall(called.heap, called.curr_message, Head(outs))
                  IN  TransformWalk(g_slist_next(curr),
                                    TransformStep([called EXCEPT !.heap = ret.heap], ret.ptr),
                                    Tail(outs))

\* The current message is the caller's buffer itself, not a copy.
TransformSeed_borrows(heap, message) == [heap |-> heap, ptr |-> message]

\* The current message started as an empty string instead of a copy.
TransformSeed_empty(heap, message) == Alloc(heap, "")

\* char *curr_message = strdup(message); ... return curr_message;
TransformSeed(heap, message) == strdup(heap, message)

Transform(hook) ==
    /\ HostMayCall
    /\ \E args \in TransformArgs(hook),
          outs \in [1..Len(plugins) ->
                      HookOutcomes \cup IF env.alias THEN AliasOutcomes ELSE {}],
          dangling \in [1..Len(plugins) ->
                          IF env.alias THEN DanglingOutcomes ELSE {"intact"}] :
         LET ctx == args[1]
             text == args[2]
             message == Alloc(<<>>, text)
             seed == TransformSeed(message.heap, message.ptr)
             w == TransformWalk(plugins,
                                [heap |-> seed.heap, curr_message |-> seed.ptr,
                                 calls |-> <<>>, ctx |-> ctx, faults |-> <<>>,
                                 aborted |-> FALSE, dangling |-> dangling],
                                outs)
             returns == Returned(w.calls) /\ ~w.aborted
         IN  /\ last' = [hook |-> hook, message |-> message.ptr, calls |-> w.calls,
                         heap |-> w.heap,
                         result |-> IF returns THEN w.curr_message ELSE NullPtr,
                         status |-> IF returns THEN "done" ELSE "crashed",
                         list |-> <<>>, ctx |-> ctx, text |-> text,
                         faults |-> w.faults]
             /\ pc' = IF returns THEN ReturnedTo ELSE "crashed"
    /\ UNCHANGED <<have, plugins_load, plugins, log, teardowns, env>>

plugins_before_message_displayed == Transform("before_message_displayed")

plugins_on_message_received == Transform("on_message_received")

plugins_on_private_message_received == Transform("on_private_message_received")

plugins_on_room_message_received == Transform("on_room_message_received")

plugins_on_message_send == Transform("on_message_send")

plugins_on_private_message_send == Transform("on_private_message_send")

plugins_on_room_message_send == Transform("on_room_message_send")

(***************************************************************************)
(* The caller of a dispatcher takes what it returned (the transformed      *)
(* message is the caller's from then on) and goes on; the dispatcher's     *)
(* locals are gone.                                                        *)
(***************************************************************************)
caller_continues ==
    /\ pc \in {"returned", "returned_late"}
    /\ pc' = IF pc = "returned" THEN "running" ELSE "terminated"
    /\ last' = NoDispatch
    /\ UNCHANGED <<have, plugins_load, plugins, log, teardowns, env>>

(***************************************************************************)
(* plugins_shutdown, lines 360-401.                                        *)
(***************************************************************************)

\* The block without the test of the plugin's language.
DestroyBlock_any_engine(lg, plugin, l) ==
    IF l \in have
    THEN Append(lg, Event("destroy", l, plugin.idx, TRUE))
    ELSE lg

\* One #ifdef block of the loop body (lines 366-370, 371-375, 376-380, 381-385).
DestroyBlock(lg, plugin, l) ==
    IF l \in have /\ plugin.lang = l
    THEN Append(lg, Event("destroy", l, plugin.idx, TRUE))
    ELSE lg

RECURSIVE DestroyBlocks(_, _, _)
DestroyBlocks(lg, plugin, k) ==
    IF k > Len(EngineOrder) THEN lg
    ELSE DestroyBlocks(DestroyBlock(lg, plugin, EngineOrder[k]), plugin, k + 1)

\* Lines 363-388: while (curr != NULL) { ...; curr = g_slist_next(curr); }
RECURSIVE DestroyWalk(_, _)
DestroyWalk(curr, lg) ==
    IF curr = <<>> THEN lg
    ELSE DestroyWalk(g_slist_next(curr), DestroyBlocks(lg, Head(curr), 1))

\* Lines 389-400: the shutdown call of every compiled-in engine.
RECURSIVE EnvShutdown(_, _)
EnvShutdown(lg, k) ==
    IF k > Len(EngineOrder) THEN lg
    ELSE EnvShutdown(IF EngineOrder[k] \in have
                     THEN Append(lg, Event("env_shutdown", EngineOrder[k], 0, TRUE))
                     ELSE lg,
                     k + 1)

\* The engines shut down before the plugins are destroyed.
ShutdownCalls_engines_first(lg) == DestroyWalk(plugins, EnvShutdown(lg, 1))

\* The calls of plugins_shutdown in order: the destroy walk, then the engines.
ShutdownCalls(lg) == EnvShutdown(DestroyWalk(plugins, lg), 1)

\* A second plugins_shutdown hands plugins that were destroyed to destroy
\* again: the adapter releases what it has released, which either goes
\* unnoticed or ends the process at the first such call.
plugins_shutdown ==
    /\ HostMayCall
    /\ teardowns < MaxTeardowns
    /\ teardowns' = teardowns + 1
    /\ \E ends \in IF teardowns > 0 /\ plugins # <<>> THEN BOOLEAN ELSE {FALSE} :
           /\ log' = IF ends THEN DestroyBlocks(log, Head(plugins), 1)
                              ELSE ShutdownCalls(log)
           /\ pc' = IF ends THEN "crashed" ELSE "terminated"
    /\ UNCHANGED <<have, plugins_load, plugins, last, env>>

Next ==
    \/ plugins_init
    \/ plugins_get_list
    \/ plugins_on_start
    \/ plugins_on_connect
    \/ plugins_on_disconnect
    \/ plugins_on_shutdown
    \/ plugins_before_message_displayed
    \/ plugins_on_message_received
    \/ plugins_on_private_message_received
    \/ plugins_on_room_message_received
    \/ plugins_on_message_send
    \/ plugins_on_private_message_send
    \/ plugins_on_room_message_send
    \/ caller_continues
    \/ plugins_shutdown

Spec == Init /\ [][Next]_vars

\* The program with plugins whose hooks may return the message they were
\* handed: a C plugin's hook that ends in "return message;".
SpecAlias == InitIn({[Conforming EXCEPT !.alias = TRUE]}) /\ [][Next]_vars

\* The program with engines whose init may fail.
SpecEngineFail ==
    InitIn({[Conforming EXCEPT !.failing = f] : f \in SUBSET Langs}) /\ [][Next]_vars

\* The program with a host that goes on calling after plugins_shutdown.
SpecLate == InitIn({[Conforming EXCEPT !.late = TRUE]}) /\ [][Next]_vars

(***************************************************************************)
(* Vocabulary of the properties.                                           *)
(***************************************************************************)
NotifyHooks == {"on_start", "on_connect", "on_disconnect", "on_shutdown"}

TransformHooks ==
    {"before_message_displayed", "on_message_received",
     "on_private_message_received", "on_room_message_received",
     "on_message_send", "on_private_message_send", "on_room_message_send"}

NumFiles == IF plugins_load.null THEN 0 ELSE Len(plugins_load.strv)

\* The extension of a filename: what follows its last ".", <<>> without one.
ExtensionOf(name) ==
    LET dots == {k \in 1..Len(name) : name[k] = "."}
    IN  IF dots = {} THEN <<>>
        ELSE SubSeq(name, (CHOOSE k \in dots : \A j \in dots : j <= k) + 1, Len(name))

\* The extension table of the specification.
LanguageOfExtension(ext) ==
    CASE ext = <<"p", "y">>      -> "LANG_PYTHON"
      [] ext = <<"r", "b">>      -> "LANG_RUBY"
      [] ext = <<"l", "u", "a">> -> "LANG_LUA"
      [] ext = <<"s", "o">>      -> "LANG_C"
      [] OTHER                   -> "none"

FileLang(i) == LanguageOfExtension(ExtensionOf(plugins_load.strv[i]))

\* The positions in the log of the calls of one kind.
Calls(op) == {k \in 1..Len(log) : log[k].op = op}

CallsFor(op, i) == {k \in Calls(op) : log[k].idx = i}

CallsOf(op, l) == {k \in Calls(op) : log[k].lang = l}

CreateSucceeded(i) == \E k \in CallsFor("create", i) : log[k].ok

\* The files of the registry and of the init hook calls, in order.
RegistryIdx == [k \in 1..Len(plugins) |-> plugins[k].idx]

IsOp(e, op) == e.op = op

InitHookIdx ==
    LET hooks == SelectSeq(log, LAMBDA e : IsOp(e, "init_hook"))
    IN  [k \in 1..Len(hooks) |-> hooks[k].idx]

IsPrefix(s, t) == Len(s) <= Len(t) /\ s = SubSeq(t, 1, Len(s))

CalledPlugins(calls) == [k \in 1..Len(calls) |-> calls[k].plugin]

Loaded == pc \in {"running", "returned", "terminated", "returned_late"}

(***************************************************************************)
(* C1.  A message-transform dispatch is the left fold over the registry:   *)
(* the k-th hook call is made on the k-th plugin with the caller's message *)
(* as replaced by the last non-NULL return of the calls before it, and the *)
(* message returned to the caller is the caller's message as replaced by   *)
(* the last non-NULL return of all calls (the input when there is none).   *)
(***************************************************************************)
RECURSIVE FoldReplies(_, _)
FoldReplies(text, outs) ==
    IF outs = <<>> THEN text
    ELSE FoldReplies(IF Head(outs) = "NULL" THEN text ELSE Head(outs), Tail(outs))

OutsBefore(k) == [j \in 1..(k - 1) |-> last.calls[j].out]

C1_TransformIsLeftFold ==
    last.hook \in TransformHooks =>
        LET text == last.heap[last.message].val
        IN  /\ \A k \in 1..Len(last.calls) :
                  /\ k <= Len(plugins)
                  /\ last.calls[k].plugin = plugins[k]
                  /\ last.calls[k].val = FoldReplies(text, OutsBefore(k))
            /\ last.status = "done" =>
                  /\ Len(last.calls) = Len(plugins)
                  /\ last.result # NullPtr
                  /\ last.heap[last.result].val
                        = FoldReplies(text, OutsBefore(Len(plugins) + 1))

\* Two plugins: the first replaces the message, the second returns NULL and
\* was called with the replacement; the caller gets the replacement.
C1_Witness ==
    /\ last.hook \in TransformHooks
    /\ last.status = "done"
    /\ Len(last.calls) = 2
    /\ last.calls[1].out = "A"
    /\ last.calls[2].out = "NULL"
    /\ last.calls[2].val = "A"
    /\ last.heap[last.result].val = "A"

(***************************************************************************)
(* C2.  After plugins_init the registry is the subsequence of the input    *)
(* filenames whose extension maps to an enabled engine and whose create    *)
(* succeeded, in input order.                                              *)
(***************************************************************************)
RECURSIVE ExpectedRegistry(_)
ExpectedRegistry(n) ==
    IF n = 0 THEN <<>>
    ELSE IF FileLang(n) \in have /\ CreateSucceeded(n)
         THEN Append(ExpectedRegistry(n - 1), n)
         ELSE ExpectedRegistry(n - 1)

C2_RegistryIsLoadedSubsequence ==
    pc # "uninit" =>
        /\ RegistryIdx = ExpectedRegistry(NumFiles)
        /\ \A k \in 1..Len(plugins) :
              /\ plugins[k].name = plugins_load.strv[plugins[k].idx]
              /\ plugins[k].lang = FileLang(plugins[k].idx)

\* Two files loaded in input order with a skipped file before them or not:
\* here a .py and a .lua file with Ruby disabled.
C2_Witness ==
    /\ pc = "running"
    /\ "LANG_RUBY" \notin have
    /\ NumFiles = 2
    /\ Len(plugins) = 2
    /\ plugins[1].lang = "LANG_PYTHON"
    /\ plugins[2].lang = "LANG_LUA"

(***************************************************************************)
(* C3.  plugins_init calls the init hook of every plugin of the registry   *)
(* exactly once, in registry order, and only after every filename has been *)
(* processed: no create call follows an init hook call, and every file of  *)
(* an enabled engine has had its create call before the first init hook.   *)
(* (When an init hook does not return, the calls made are the registry's   *)
(* first plugins in order.)                                                *)
(***************************************************************************)
C3_InitOnceAfterLoad ==
    /\ IsPrefix(InitHookIdx, RegistryIdx)
    /\ Loaded => InitHookIdx = RegistryIdx
    /\ \A h \in Calls("init_hook") :
          /\ \A c \in Calls("create") : c < h
          /\ \A i \in 1..NumFiles :
                FileLang(i) \in have => \E c \in CallsFor("create", i) : c < h

\* Both files were loaded and both init hooks have been called.
C3_Witness ==
    /\ pc = "running"
    /\ Len(plugins) = 2
    /\ Cardinality(Calls("init_hook")) = 2
    /\ Cardinality(Calls("create")) = 2

(***************************************************************************)
(* C4.  plugins_shutdown calls destroy exactly once for every plugin of    *)
(* the registry, and calls the shutdown of every enabled engine exactly    *)
(* once, after the destroy call of every plugin of that engine's language. *)
(***************************************************************************)
C4_DestroyOnceThenEngineShutdown ==
    pc = "terminated" =>
        /\ \A k \in 1..Len(plugins) :
              Cardinality(CallsFor("destroy", plugins[k].idx)) = 1
        /\ Cardinality(Calls("destroy")) = Len(plugins)
        /\ \A l \in Langs :
              Cardinality(CallsOf("env_shutdown", l)) = IF l \in have THEN 1 ELSE 0
        /\ \A s \in Calls("env_shutdown") :
              \A k \in 1..Len(plugins) :
                  plugins[k].lang = log[s].lang =>
                      \E d \in CallsFor("destroy", plugins[k].idx) : d < s

\* Two plugins of one language were destroyed and their engine shut down.
C4_Witness ==
    /\ pc = "terminated"
    /\ Len(plugins) = 2
    /\ plugins[1].lang = plugins[2].lang
    /\ Cardinality(Calls("destroy")) = 2
    /\ Cardinality(CallsOf("env_shutdown", plugins[1].lang)) = 1

(***************************************************************************)
(* C5.  Every dispatch calls the plugins in registry order: the init hooks *)
(* of plugins_init, the notification hooks and the transform hooks each    *)
(* call the registry's plugins from the first on (all of them when the     *)
(* dispatch returns), and no dispatch changes the registry, so that any    *)
(* two dispatches between load and teardown call the same sequence.        *)
(***************************************************************************)
C5_DispatchOrderIsLoadOrder ==
    /\ [](/\ IsPrefix(InitHookIdx, RegistryIdx)
          /\ Loaded => InitHookIdx = RegistryIdx
          /\ IsPrefix(CalledPlugins(last.calls), plugins)
          /\ last.status = "done" => CalledPlugins(last.calls) = plugins)
    /\ [][(pc \in {"running", "returned"}) => (plugins' = plugins)]_vars

\* A notification hook has been dispatched to two plugins of two languages.
C5_Witness ==
    /\ last.hook \in NotifyHooks
    /\ last.status = "done"
    /\ Len(last.calls) = 2
    /\ plugins[1].lang # plugins[2].lang

(***************************************************************************)
(* C6.  Fault isolation: when a hook call of a dispatch fails, the         *)
(* dispatcher still calls the hook of every later plugin of the registry   *)
(* and the failure does not reach the host.                                *)
(***************************************************************************)
C6_FaultIsolation ==
    \A k \in 1..Len(last.calls) :
        last.calls[k].out = "FATAL" =>
            /\ Len(last.calls) = Len(plugins)
            /\ pc # "crashed"

(***************************************************************************)
(* C7.  A file that is not loaded does not end the batch: every file of an *)
(* enabled engine has exactly one create call whatever happened to the     *)
(* files before it, a file whose create failed or that has no enabled      *)
(* engine has no plugin in the registry, and every file whose create       *)
(* succeeded has exactly one, in input order.                              *)
(***************************************************************************)
RegistryPositions(i) == {k \in 1..Len(plugins) : plugins[k].idx = i}

C7_LoadFailureIsNotFatal ==
    pc # "uninit" =>
        /\ \A i \in 1..NumFiles :
              /\ Cardinality(CallsFor("create", i)) = IF FileLang(i) \in have THEN 1 ELSE 0
              /\ Cardinality(RegistryPositions(i)) = IF CreateSucceeded(i) THEN 1 ELSE 0
        /\ \A j, k \in 1..Len(plugins) : j < k => plugins[j].idx < plugins[k].idx

\* The create of the first file failed and the second file was loaded.
C7_Witness ==
    /\ pc = "running"
    /\ NumFiles = 2
    /\ \E k \in CallsFor("create", 1) : ~log[k].ok
    /\ Len(plugins) = 1
    /\ plugins[1].idx = 2

(***************************************************************************)
(* C8.  Every plugin of the registry has the language of an enabled        *)
(* engine, and a file whose extension is that of a disabled engine or of   *)
(* no engine causes no call at all (no create, no log entry) and has no    *)
(* plugin in the registry.                                                 *)
(***************************************************************************)
C8_OnlyEnabledEngines ==
    /\ \A k \in 1..Len(plugins) : plugins[k].lang \in have
    /\ \A c \in Calls("create") : log[c].lang \in have
    /\ \A i \in 1..NumFiles :
          FileLang(i) \notin have =>
              /\ {k \in 1..Len(log) : log[k].idx = i} = {}
              /\ RegistryPositions(i) = {}

\* A .rb file was skipped in a build without Ruby, and the other file loaded.
C8_Witness ==
    /\ pc = "running"
    /\ "LANG_RUBY" \notin have
    /\ \E i \in 1..NumFiles : FileLang(i) = "LANG_RUBY"
    /\ Len(plugins) = 1

(***************************************************************************)
(* C9.  plugins_init calls the init of every enabled engine exactly once   *)
(* (and of no other engine), before every create call, also when the list  *)
(* of filenames is absent or empty or names no file of that language; no   *)
(* later operation calls it again.                                         *)
(***************************************************************************)
C9_EngineInitOnceBeforeCreate ==
    pc # "uninit" =>
        /\ \A l \in Langs :
              Cardinality(CallsOf("env_init", l)) = IF l \in have THEN 1 ELSE 0
        /\ \A e \in Calls("env_init") : \A c \in Calls("create") : e < c

\* At the end of the lifecycle: Lua was initialised once though the only
\* file listed was a Python plugin, created after both engine inits.
C9_Witness ==
    /\ pc = "terminated"
    /\ {"LANG_PYTHON", "LANG_LUA"} \subseteq have
    /\ NumFiles = 1
    /\ Cardinality(CallsOf("create", "LANG_PYTHON")) = 1
    /\ Cardinality(CallsOf("env_init", "LANG_LUA")) = 1

(***************************************************************************)
(* C10.  With an empty registry a message-transform dispatch calls no hook *)
(* and returns a message equal to the caller's.                            *)
(***************************************************************************)
C10_ZeroPluginsIdentity ==
    (last.hook \in TransformHooks /\ plugins = <<>>) =>
        /\ last.status = "done"
        /\ last.calls = <<>>
        /\ last.result # NullPtr
        /\ last.heap[last.result].val = last.heap[last.message].val

\* No list of filenames was supplied and a transform returned the message "n".
C10_Witness ==
    /\ plugins_load.null
    /\ plugins = <<>>
    /\ last.hook \in TransformHooks
    /\ last.status = "done"
    /\ last.heap[last.message].val = "n"
    /\ last.heap[last.result].val = "n"

(***************************************************************************)
(* C11.  The registry is changed by the load phase and by teardown only:   *)
(* the list plugins_get_list returns is the registry, which the call       *)
(* leaves as it was, and once plugins_shutdown has returned the registry   *)
(* is empty.  plugins_shutdown destroys every plugin and frees no node of  *)
(* the list, nor sets plugins to NULL: the registry keeps its entries.     *)
(***************************************************************************)
C11_TeardownDrainsRegistry ==
    /\ (last.hook = "get_list" => last.list = plugins)
    /\ (pc = "terminated" => plugins = <<>>)

\* The registry still holds a destroyed plugin after plugins_shutdown.
C11_Witness ==
    /\ pc = "terminated"
    /\ plugins # <<>>
    /\ \A p \in 1..Len(plugins) : CallsFor("destroy", plugins[p].idx) # {}

(***************************************************************************)
(* C16.  Every create call is made by the adapter of the language of the   *)
(* file's extension, every plugin of the registry carries that language,   *)
(* every destroy call is made by the adapter of the plugin's language, and *)
(* after plugins_shutdown every plugin of the registry has been destroyed  *)
(* exactly once.                                                           *)
(***************************************************************************)
C16_CreatedAndDestroyedBySameAdapter ==
    /\ \A k \in Calls("create") : log[k].lang = FileLang(log[k].idx)
    /\ \A p \in 1..Len(plugins) :
          /\ plugins[p].lang = FileLang(plugins[p].idx)
          /\ \E k \in CallsFor("create", plugins[p].idx) :
                log[k].ok /\ log[k].lang = plugins[p].lang
    /\ \A k \in Calls("destroy") :
          \E p \in 1..Len(plugins) :
             plugins[p].idx = log[k].idx /\ plugins[p].lang = log[k].lang
    /\ pc = "terminated" =>
          \A p \in 1..Len(plugins) :
             Cardinality(CallsFor("destroy", plugins[p].idx)) = 1

\* Two plugins of different languages, both destroyed, with both engines
\* compiled in.
C16_Witness ==
    /\ pc = "terminated"
    /\ Len(plugins) = 2
    /\ plugins[1].lang # plugins[2].lang
    /\ Cardinality(Calls("destroy")) = 2

(***************************************************************************)
(* C17.  After the load phase there is one log_info entry for every file   *)
(* from which a plugin was created and appended, and none for any other    *)
(* file: the entry directly follows the successful create call, and the    *)
(* number of entries is the length of the registry.                        *)
(***************************************************************************)
C17_LogEntryIffLoaded ==
    pc # "uninit" =>
        /\ \A i \in 1..NumFiles :
              Cardinality(CallsFor("log_info", i)) =
                  IF CreateSucceeded(i) /\ RegistryPositions(i) # {} THEN 1 ELSE 0
        /\ \A k \in Calls("log_info") :
              /\ k > 1
              /\ log[k - 1].op = "create"
              /\ log[k - 1].ok
              /\ log[k - 1].idx = log[k].idx
        /\ Cardinality(Calls("log_info")) = Len(plugins)

\* Two files, one loaded and logged, the other with a failed create.
C17_Witness ==
    /\ pc = "running"
    /\ NumFiles = 2
    /\ Len(plugins) = 1
    /\ Cardinality(Calls("log_info")) = 1
    /\ \E k \in Calls("create") : ~log[k].ok

(***************************************************************************)
(* C18.  Every file has at most one create call and at most one plugin in  *)
(* the registry; a file whose create succeeded is in the registry whether  *)
(* or not its name is listed elsewhere; the length of the registry is the  *)
(* number of successful create calls and at most the number of files.      *)
(***************************************************************************)
C18_OnePluginPerFileEntry ==
    pc # "uninit" =>
        /\ \A i \in 1..NumFiles :
              /\ Cardinality(CallsFor("create", i)) <= 1
              /\ Cardinality(RegistryPositions(i)) <= 1
              /\ CreateSucceeded(i) => RegistryPositions(i) # {}
        /\ Len(plugins) = Cardinality({k \in Calls("create") : log[k].ok})
        /\ Len(plugins) <= NumFiles

\* The same filename listed twice and loaded twice.
C18_Witness ==
    /\ pc = "running"
    /\ NumFiles = 2
    /\ plugins_load.strv[1] = plugins_load.strv[2]
    /\ Len(plugins) = 2
    /\ plugins[1].name = plugins[2].name

(***************************************************************************)
(* C19.  In a transform dispatch every hook call is handed the fixed       *)
(* arguments the caller passed, whatever the earlier hooks returned, while *)
(* the message handed on is the current one; the caller's message buffer   *)
(* is still allocated and holds the caller's text after the dispatch, and  *)
(* is not the buffer returned.                                             *)
(***************************************************************************)
C19_ContextAndInputUntouched ==
    last.hook \in TransformHooks =>
        /\ last.ctx \in Contexts(last.hook)
        /\ \A k \in 1..Len(last.calls) :
              /\ last.calls[k].ctx = last.ctx
              /\ last.calls[k].arg # last.message
        /\ last.heap[last.message].live
        /\ last.text \in Messages
        /\ last.heap[last.message].val = last.text
        /\ last.status = "done" => last.result # last.message

\* Two plugins called with a room and a nick; the first replaced the
\* message, so the second was handed another message and the same context.
C19_Witness ==
    /\ last.hook = "on_private_message_received"
    /\ last.status = "done"
    /\ Len(last.calls) = 2
    /\ last.ctx = <<"r2", "k2">>
    /\ last.calls[1].out = "A"
    /\ last.calls[2].val = "A"
    /\ last.calls[2].ctx = last.ctx
    /\ last.text = "n"
    /\ last.heap[last.message] = Buffer("n")

(***************************************************************************)
(* C13.  A transform dispatch in which a hook returns the message it was   *)
(* handed goes as the dispatch in which that hook returns NULL: it         *)
(* returns, uses no released buffer, hands the same texts to the same      *)
(* plugins and returns a live buffer with the same text.  The step of      *)
(* lines 209-213 compares new_message with NULL only: handed curr_message  *)
(* back, it frees it, copies the freed buffer and frees it again.          *)
(***************************************************************************)
LastOuts == [k \in 1..Len(last.calls) |-> last.calls[k].out]

NoValueFor(outs) == [k \in 1..Len(outs) |-> IF outs[k] = "SAME" THEN "NULL" ELSE outs[k]]

\* The walk of the last dispatch with the given hook returns.
WalkWith(outs) ==
    LET message == Alloc(<<>>, last.text)
        seed == TransformSeed(message.heap, message.ptr)
    IN  TransformWalk(plugins,
                      [heap |-> seed.heap, curr_message |-> seed.ptr,
                       calls |-> <<>>, ctx |-> last.ctx, faults |-> <<>>,
                       aborted |-> FALSE,
                       dangling |-> [k \in 1..Len(plugins) |-> "intact"]],
                      outs)

C13_SameReturnIsNoValue ==
    (/\ last.hook \in TransformHooks
     /\ \E k \in 1..Len(last.calls) : last.calls[k].out = "SAME"
     /\ \A k \in 1..Len(last.calls) : last.calls[k].out # "FATAL")
    => /\ last.status = "done"
       /\ last.faults = <<>>
       /\ LET ref == WalkWith(NoValueFor(LastOuts))
          IN  /\ \A k \in 1..Len(last.calls) :
                    last.calls[k].val = ref.calls[k].val
              /\ last.heap[last.result].live
              /\ last.heap[last.result].val = ref.heap[ref.curr_message].val

\* One plugin returned its argument; the dispatcher returned a released
\* buffer that no longer holds the caller's text.
C13_Witness ==
    /\ last.hook \in TransformHooks
    /\ last.status = "done"
    /\ Len(last.calls) = 1
    /\ last.calls[1].out = "SAME"
    /\ ~last.heap[last.result].live
    /\ last.heap[last.result].val # last.text

(***************************************************************************)
(* C15.  In a transform dispatch no released buffer is read or released;   *)
(* when the dispatch returns, every buffer but the caller's message and    *)
(* the returned one has been released, and the returned buffer is live     *)
(* and is not the caller's message, which is live as well.                 *)
(***************************************************************************)
C15_TransformOwnership ==
    last.hook \in TransformHooks =>
        /\ last.faults = <<>>
        /\ last.status = "done" =>
              /\ \A p \in 1..Len(last.heap) :
                    p \notin {last.message, last.result} => ~last.heap[p].live
              /\ last.heap[last.result].live
              /\ last.result # last.message
              /\ last.heap[last.message].live

\* A buffer was read and released after its release, in a dispatch that
\* returned.
C15_Witness ==
    /\ last.hook \in TransformHooks
    /\ last.status = "done"
    /\ \E k \in 1..Len(last.faults) : last.faults[k].op = "free"
    /\ \E k \in 1..Len(last.faults) : last.faults[k].op = "read"

(***************************************************************************)
(* C12.  Once plugins_shutdown has returned, no dispatch calls a hook, no  *)
(* plugin is destroyed a second time and no engine is shut down a second   *)
(* time.  No function of the file records that teardown has happened, and  *)
(* the registry keeps its destroyed plugins: a dispatcher called after     *)
(* teardown walks them, and a second plugins_shutdown destroys them and    *)
(* shuts the engines down again.                                           *)
(***************************************************************************)
C12_TerminatedIsAbsorbing ==
    /\ teardowns > 0 => last.calls = <<>>
    /\ \A p \in 1..Len(plugins) :
          Cardinality(CallsFor("destroy", plugins[p].idx)) <= 1
    /\ \A l \in Langs : Cardinality(CallsOf("env_shutdown", l)) <= 1

\* A notification hook of a destroyed plugin was called after teardown.
C12_Witness ==
    /\ teardowns = 1
    /\ pc = "returned_late"
    /\ last.hook \in NotifyHooks
    /\ last.calls # <<>>
    /\ CallsFor("destroy", last.calls[1].plugin.idx) # {}

(***************************************************************************)
(* C14.  An engine whose init failed is initialised once, no create        *)
(* function of its language is called afterwards and no plugin of its      *)
(* language is in the registry.  plugins_init calls the four init          *)
(* functions as statements and tests nothing before calling create.        *)
(***************************************************************************)
C14_EngineInitFailureIsFatal ==
    \A k \in Calls("env_init") :
       ~log[k].ok =>
          /\ Cardinality(CallsOf("env_init", log[k].lang)) = 1
          /\ CallsOf("create", log[k].lang) = {}
          /\ \A p \in 1..Len(plugins) : plugins[p].lang # log[k].lang

\* The init of an engine failed and a plugin of its language is in the
\* registry and has had its init hook called.
C14_Witness ==
    /\ pc = "running"
    /\ \E k \in Calls("env_init") :
          /\ ~log[k].ok
          /\ \E p \in 1..Len(plugins) :
                /\ plugins[p].lang = log[k].lang
                /\ CallsFor("init_hook", plugins[p].idx) # {}

=============================================================================
